---- MODULE Spec2Model ----
(***************************************************************************)
(* MRP Critical Items Analyzer: the analysis of one spreadsheet            *)
(* (MRPAnalyzer.analyze in src/src/core/mrp_analyzer.py, and its twin      *)
(* analyze_mrp in src/mrp_analyzer.py) as a state machine over the input   *)
(* sheet, the returned triple and the files it writes; and the window of   *)
(* src/mrp_gui.py that runs it, shows its report and compares two reports. *)
(*                                                                         *)
(* Strings that the code transforms (column headers) are sequences of      *)
(* one-character strings; cells are records [kind, val]; float64           *)
(* quantities are fixed-point integers in units of 1/Scale.                *)
(***************************************************************************)
EXTENDS Integers, Sequences, FiniteSets, TLC

VARIABLES
    file,      \* the input artifact: None, or Some(sheet)
    result,    \* the triple returned by the last invocation, None before any
    out,       \* the primary output artifact: None, or Some(workbook)
    histDir,   \* TRUE when <output dir>/historico_mrp exists
    hist,      \* the history artifacts: path -> workbook
    clock,     \* wall clock, in seconds
    cache,     \* lru_cache of the module-level analyze_mrp: None, or Some(triple)
    proc,      \* the last run as a command: None, or Some([exit, stdout, stderr])
    analyzer,  \* the default-constructed MRPAnalyzer
    gui        \* the MRPGUI window of src/mrp_gui.py: its state, widgets and folder

vars == <<file, result, out, histDir, hist, clock, cache, proc, analyzer, gui>>

---------------------------------------------------------------------------
(* Bounds *)

MaxRows == 2       \* rows of an input sheet
MaxQty == 3        \* largest quantity in a cell
MaxClock == 1      \* seconds the clock can advance
MaxMissing == 2    \* required columns absent from an input sheet

---------------------------------------------------------------------------
(* Optional values: Python's None and a present value *)

None == <<>>
Some(v) == <<v>>
IsSome(o) == Len(o) = 1
Val(o) == o[1]

---------------------------------------------------------------------------
(* Cells of a sheet.  A number is an integer (negative allowed), NaN is a  *)
(* blank cell, a text is identified by a positive number, "" is text 0.    *)

Num(n) == [kind |-> "num", val |-> n]
NaN == [kind |-> "nan", val |-> 0]
Txt(i) == [kind |-> "text", val |-> i]
EmptyStr == Txt(0)

---------------------------------------------------------------------------
(* Strings as character sequences *)

LowerCase == <<"a","b","c","d","e","f","g","i","m","n","o","p","q","r","s",
               "t","u","v","ó","ç","ã">>
UpperCase == <<"A","B","C","D","E","F","G","I","M","N","O","P","Q","R","S",
               "T","U","V","Ó","Ç","Ã">>
Whitespace == {" ", "\t"}

\* str.upper() and str.lower() on one character
UpperMap ==
    [c \in {LowerCase[i] : i \in 1..Len(LowerCase)} |->
        UpperCase[CHOOSE i \in 1..Len(LowerCase) : LowerCase[i] = c]]
LowerMap ==
    [c \in {UpperCase[i] : i \in 1..Len(UpperCase)} |->
        LowerCase[CHOOSE i \in 1..Len(UpperCase) : UpperCase[i] = c]]

UpperChar(c) == IF c \in DOMAIN UpperMap THEN UpperMap[c] ELSE c
LowerChar(c) == IF c \in DOMAIN LowerMap THEN LowerMap[c] ELSE c

upper(s) == [i \in 1..Len(s) |-> UpperChar(s[i])]
lower(s) == [i \in 1..Len(s) |-> LowerChar(s[i])]

RECURSIVE lstrip(_)
lstrip(s) ==
    IF s # <<>> /\ Head(s) \in Whitespace THEN lstrip(Tail(s)) ELSE s

RECURSIVE rstrip(_)
rstrip(s) ==
    IF s # <<>> /\ s[Len(s)] \in Whitespace
    THEN rstrip(SubSeq(s, 1, Len(s) - 1))
    ELSE s

\* str.strip()
strip(s) == rstrip(lstrip(s))

\* A normalization that also removes inner blanks and periods
NormalizeHeader_compact(h) ==
    upper(SelectSeq(h, LAMBDA ch : ch \notin Whitespace \cup {"."}))

\* col.strip().upper()
NormalizeHeader(h) == upper(strip(h))

\* Texts of the cells of a STATUS column
StatusText ==
    [id \in 40..42 |->
        CASE id = 40 -> <<"A","t","i","v","o">>
          [] id = 41 -> <<"i","n","a","t","i","v","o">>
          [] id = 42 -> <<"I","N","A","T","I","V","O">>]

\* The cell is a status text equal to "inativo" when case is ignored
IsInativo(cell) ==
    /\ cell.kind = "text"
    /\ cell.val \in DOMAIN StatusText
    /\ lower(StatusText[cell.val]) = <<"i","n","a","t","i","v","o">>

\* The spelling of the column names the code compares against
Chars ==
    [n \in {"CÓD", "DESCRIÇÃOPROMOB", "ESTQ10", "ESTQ20", "DEMANDAMRP",
            "ESTOQSEG", "FORNECEDORPRINCIPAL", "PEDIDOS", "OBS", "STATUS"} |->
        CASE n = "CÓD" -> <<"C","Ó","D">>
          [] n = "DESCRIÇÃOPROMOB" ->
                <<"D","E","S","C","R","I","Ç","Ã","O","P","R","O","M","O","B">>
          [] n = "ESTQ10" -> <<"E","S","T","Q","1","0">>
          [] n = "ESTQ20" -> <<"E","S","T","Q","2","0">>
          [] n = "DEMANDAMRP" -> <<"D","E","M","A","N","D","A","M","R","P">>
          [] n = "ESTOQSEG" -> <<"E","S","T","O","Q","S","E","G">>
          [] n = "FORNECEDORPRINCIPAL" ->
                <<"F","O","R","N","E","C","E","D","O","R",
                  "P","R","I","N","C","I","P","A","L">>
          [] n = "PEDIDOS" -> <<"P","E","D","I","D","O","S">>
          [] n = "OBS" -> <<"O","B","S">>
          [] n = "STATUS" -> <<"S","T","A","T","U","S">>]

---------------------------------------------------------------------------
(* MRPConfig *)

REQUIRED_COLUMNS ==
    <<"CÓD", "DESCRIÇÃOPROMOB", "ESTQ10", "ESTQ20", "DEMANDAMRP",
      "ESTOQSEG", "FORNECEDORPRINCIPAL", "PEDIDOS", "OBS">>

NUMERIC_COLUMNS == <<"ESTQ10", "ESTQ20", "DEMANDAMRP", "ESTOQSEG", "PEDIDOS">>

OUTPUT_COLUMNS ==
    <<"CÓD", "FORNECEDOR PRINCIPAL", "DESCRIÇÃOPROMOB", "ESTQ10", "ESTQ20",
      "DEMANDAMRP", "ESTOQSEG", "PEDIDOS", "ESTOQUE DISPONÍVEL",
      "QUANTIDADE A SOLICITAR", "OBS">>

Range(s) == {s[i] : i \in 1..Len(s)}

\* A Python tuple, the value of a parenthesized literal (a bracketed one
\* would be of type "list")
PyTuple(items) == [type |-> "tuple", items |-> items]

\* MRPConfig(): the dataclass with its default field values
MRPConfig ==
    [REQUIRED_COLUMNS |-> PyTuple(REQUIRED_COLUMNS),
     NUMERIC_COLUMNS |-> PyTuple(NUMERIC_COLUMNS),
     OUTPUT_COLUMNS |-> PyTuple(OUTPUT_COLUMNS),
     HISTORY_DIR |-> "historico_mrp"]

\* MRPAnalyzer.__init__(self, config=MRPConfig())
__init__(config) == [config |-> config, validator |-> "DataValidator"]

---------------------------------------------------------------------------
(* pandas.read_excel with dtype={col: 'float64' for col in NUMERIC_COLUMNS} *)
(* A sheet is [header, body]: header[j] is the raw header of column j and  *)
(* body[i][j] the cell of row i (0-based row i-1) in column j.             *)

\* The dtype mapping is keyed by the raw header, before any normalization.
HasDtype(h) == \E c \in Range(NUMERIC_COLUMNS) : Chars[c] = h

\* Name of a raw header that is a dtype key
DtypeKey(h) == CHOOSE c \in Range(NUMERIC_COLUMNS) : Chars[c] = h

\* Columns whose cast to float64 fails: a dtype column holding a text
UnconvertibleColumns(sheet) ==
    {j \in 1..Len(sheet.header) :
        /\ HasDtype(sheet.header[j])
        /\ \E i \in 1..Len(sheet.body) : sheet.body[i][j].kind = "text"}

---------------------------------------------------------------------------
(* The DataFrame after df.columns = [col.strip().upper() ...]              *)

NormalizeColumns(sheet) ==
    [columns |-> [j \in 1..Len(sheet.header) |-> NormalizeHeader(sheet.header[j])],
     data |-> sheet.body]

HasColumn(df, col) == \E j \in 1..Len(df.columns) : df.columns[j] = Chars[col]

ColIndex(df, col) ==
    CHOOSE j \in 1..Len(df.columns) :
        /\ df.columns[j] = Chars[col]
        /\ \A k \in 1..(j - 1) : df.columns[k] # Chars[col]

\* df[col] at row i (1-based here, pandas index i-1)
At(df, i, col) == df.data[i][ColIndex(df, col)]

\* The pandas index values (0-based, ascending) of the rows in the set S
IndexList(df, S) ==
    SelectSeq([i \in 1..Len(df.data) |-> i - 1], LAMBDA k : (k + 1) \in S)

---------------------------------------------------------------------------
(* Exceptions and the messages built from them *)

Raise(exc, kind, cols, rows) ==
    [exc |-> exc, kind |-> kind, cols |-> cols, rows |-> rows]

NoError == None

\* A check that stops at the first absent column
validate_required_columns_first(df, required_cols) ==
    LET missing_cols == SelectSeq(required_cols, LAMBDA col : ~HasColumn(df, col))
    IN  IF missing_cols # <<>>
        THEN Some(Raise("ValidationError", "Required columns missing",
                        <<Head(missing_cols)>>, <<>>))
        ELSE NoError

\* DataValidator.validate_required_columns
validate_required_columns(df, required_cols) ==
    LET missing_cols == SelectSeq(required_cols, LAMBDA col : ~HasColumn(df, col))
    IN  IF missing_cols # <<>>
        THEN Some(Raise("ValidationError", "Required columns missing",
                        missing_cols, <<>>))
        ELSE NoError

\* pd.to_numeric(df[col], errors='coerce').isna() at row i
IsNaAfterCoerce(df, i, col) == At(df, i, col).kind # "num"

\* A numeric check that lets blank cells pass: only texts are reported
RECURSIVE validate_numeric_columns_blank_ok(_, _)
validate_numeric_columns_blank_ok(df, columns) ==
    IF columns = <<>> THEN NoError
    ELSE LET col == Head(columns)
             invalid_rows == IndexList(df, {i \in 1..Len(df.data) :
                                               At(df, i, col).kind = "text"})
         IN  IF invalid_rows # <<>>
             THEN Some(Raise("ValidationError", "Non-numeric values found",
                             <<col>>, invalid_rows))
             ELSE validate_numeric_columns_blank_ok(df, Tail(columns))

\* DataValidator.validate_numeric_columns: the first column, in the order
\* of `columns`, holding a value that is not a number
RECURSIVE validate_numeric_columns(_, _)
validate_numeric_columns(df, columns) ==
    IF columns = <<>> THEN NoError
    ELSE LET col == Head(columns)
             invalid_rows == IndexList(df, {i \in 1..Len(df.data) : IsNaAfterCoerce(df, i, col)})
         IN  IF invalid_rows # <<>>
             THEN Some(Raise("ValidationError", "Non-numeric values found",
                             <<col>>, invalid_rows))
             ELSE validate_numeric_columns(df, Tail(columns))

\* df[col] < 0 at row i (a comparison with NaN is False)
IsNegative(df, i, col) ==
    At(df, i, col).kind = "num" /\ At(df, i, col).val < 0

\* DataValidator.validate_positive_values
RECURSIVE validate_positive_values(_, _)
validate_positive_values(df, columns) ==
    IF columns = <<>> THEN NoError
    ELSE LET col == Head(columns)
             negative_rows == IndexList(df, {i \in 1..Len(df.data) : IsNegative(df, i, col)})
         IN  IF negative_rows # <<>>
             THEN Some(Raise("ValidationError", "Negative values found",
                             <<col>>, negative_rows))
             ELSE validate_positive_values(df, Tail(columns))

---------------------------------------------------------------------------
(* Arithmetic on float64 quantities, as fixed-point multiples of 1/Scale   *)

Scale == 6

Fixed(n) == Scale * n

\* clip left out: the value passes unchanged
clip_missing(x) == x

\* Series.clip(lower=0)
clip(x) == IF x < 0 THEN 0 ELSE x

\* Series.round().astype(int): nearest integer, a tie goes to the even one
round(x) ==
    LET q == x \div Scale
        r == x % Scale
    IN  IF 2 * r < Scale THEN q
        ELSE IF 2 * r > Scale THEN q + 1
        ELSE IF q % 2 = 0 THEN q ELSE q + 1

\* The secondary stock divided by 2 instead of 3
_calculate_available_stock_half(df, i) ==
    Fixed(At(df, i, "ESTQ10").val) + (Fixed(At(df, i, "ESTQ20").val) \div 2)

\* The available stock rounded to a whole unit before the filter and the
\* quantity read it
_calculate_available_stock_rounded(df, i) ==
    Fixed(round(Fixed(At(df, i, "ESTQ10").val)
                + (Fixed(At(df, i, "ESTQ20").val) \div 3)))

\* MRPAnalyzer._calculate_available_stock, for row i:
\* np.add(df["ESTQ10"], np.divide(df["ESTQ20"], 3))
_calculate_available_stock(df, i) ==
    Fixed(At(df, i, "ESTQ10").val) + (Fixed(At(df, i, "ESTQ20").val) \div 3)

\* The filter preceded by the removal of the rows whose STATUS is inativo
mask_active(df, i) ==
    /\ ~(HasColumn(df, "STATUS") /\ IsInativo(At(df, i, "STATUS")))
    /\ (_calculate_available_stock(df, i) - Fixed(At(df, i, "DEMANDAMRP").val))
          < Fixed(At(df, i, "ESTOQSEG").val)

\* The filter with <= in place of <
mask_le(df, i) ==
    (_calculate_available_stock(df, i) - Fixed(At(df, i, "DEMANDAMRP").val))
        <= Fixed(At(df, i, "ESTOQSEG").val)

\* mask = (df["ESTOQUE DISPONÍVEL"] - df["DEMANDAMRP"]) < df["ESTOQSEG"]
mask(df, i) ==
    (_calculate_available_stock(df, i) - Fixed(At(df, i, "DEMANDAMRP").val))
        < Fixed(At(df, i, "ESTOQSEG").val)

\* The quantity without the subtraction of PEDIDOS
_calculate_required_quantity_no_pedidos(df, i) ==
    round(clip(Fixed(At(df, i, "DEMANDAMRP").val)
               - _calculate_available_stock(df, i)
               + Fixed(At(df, i, "ESTOQSEG").val)))

\* MRPAnalyzer._calculate_required_quantity, for row i; the column
\* ESTOQUE DISPONÍVEL it reads is still the unrounded available stock
_calculate_required_quantity(df, i) ==
    round(clip(Fixed(At(df, i, "DEMANDAMRP").val)
               - _calculate_available_stock(df, i)
               + Fixed(At(df, i, "ESTOQSEG").val)
               - Fixed(At(df, i, "PEDIDOS").val)))

\* DataFrame.fillna("") on one cell
fillna(cell) == IF cell.kind = "nan" THEN EmptyStr ELSE cell

\* The supplier column filled from the description
OutputRow_supplier_mixup(df, i) ==
    [c \in Range(OUTPUT_COLUMNS) |->
        CASE c = "QUANTIDADE A SOLICITAR" -> Num(_calculate_required_quantity(df, i))
          [] c = "FORNECEDOR PRINCIPAL" -> fillna(At(df, i, "DESCRIÇÃOPROMOB"))
          [] c = "ESTOQUE DISPONÍVEL" -> Num(round(_calculate_available_stock(df, i)))
          [] OTHER -> fillna(At(df, i, c))]

\* One row of critical_items[OUTPUT_COLUMNS].fillna("")
OutputRow(df, i) ==
    [c \in Range(OUTPUT_COLUMNS) |->
        CASE c = "QUANTIDADE A SOLICITAR" -> Num(_calculate_required_quantity(df, i))
          [] c = "FORNECEDOR PRINCIPAL" -> fillna(At(df, i, "FORNECEDORPRINCIPAL"))
          [] c = "ESTOQUE DISPONÍVEL" -> Num(round(_calculate_available_stock(df, i)))
          [] OTHER -> fillna(At(df, i, c))]

\* r placed in s, which is in descending quantity order, ahead of the rows
\* whose quantity is not larger
InsertDescending(r, s) ==
    LET n == Cardinality({k \in 1..Len(s) :
                 s[k]["QUANTIDADE A SOLICITAR"].val > r["QUANTIDADE A SOLICITAR"].val})
    IN  SubSeq(s, 1, n) \o <<r>> \o SubSeq(s, n + 1, Len(s))

\* The critical rows followed by a stable sort on descending quantity
RECURSIVE CriticalItems_sorted(_, _)
CriticalItems_sorted(df, i) ==
    IF i > Len(df.data) THEN <<>>
    ELSE IF mask(df, i)
         THEN InsertDescending(OutputRow(df, i), CriticalItems_sorted(df, i + 1))
         ELSE CriticalItems_sorted(df, i + 1)

\* critical_items = df[mask], projected: the masked rows in their df order
RECURSIVE CriticalItems(_, _)
CriticalItems(df, i) ==
    IF i > Len(df.data) THEN <<>>
    ELSE (IF mask(df, i) THEN <<OutputRow(df, i)>> ELSE <<>>)
         \o CriticalItems(df, i + 1)

---------------------------------------------------------------------------
(* Writing the report and its history copy *)

HISTORY_DIR == MRPConfig.HISTORY_DIR

\* What can go wrong while writing: nothing, the primary file cannot be
\* written, the history directory cannot be created, the history file
\* cannot be written.
Faults == {"none", "primary", "mkdir", "history"}

\* worksheet.write(row, col, value, fmt)
Cell(value, fmt) == [value |-> value, fmt |-> fmt]

\* The cell format chosen for a data cell, the alternate-row shading tested
\* before the highlight
CellFormat_shading_first(col, value, row_idx) ==
    IF row_idx % 2 = 0 THEN "alternate_row"
    ELSE IF col = "QUANTIDADE A SOLICITAR" /\ value.kind = "num" /\ value.val > 0
         THEN "highlight"
         ELSE "none"

\* MRPAnalyzer._format_excel, the format of a data cell: highlight for a
\* positive number under QUANTIDADE A SOLICITAR, else the alternate-row
\* shading on even rows, else no format
CellFormat(col, value, row_idx) ==
    IF col = "QUANTIDADE A SOLICITAR" /\ value.kind = "num" /\ value.val > 0
    THEN "highlight"
    ELSE IF row_idx % 2 = 0 THEN "alternate_row" ELSE "none"

\* MRPAnalyzer._format_excel: the header row, the frozen header, the filter
\* over the data range, and every data cell of df written with its format
_format_excel(df) ==
    [header |-> [col_num \in 1..Len(OUTPUT_COLUMNS) |->
                    Cell(OUTPUT_COLUMNS[col_num], "header")],
     freeze_panes |-> <<1, 0>>,
     autofilter |-> <<0, 0, Len(df), Len(OUTPUT_COLUMNS) - 1>>,
     rows |-> [row_idx \in 1..Len(df) |->
                 [col_idx \in 1..Len(OUTPUT_COLUMNS) |->
                     Cell(df[row_idx][OUTPUT_COLUMNS[col_idx]],
                          CellFormat(OUTPUT_COLUMNS[col_idx],
                                     df[row_idx][OUTPUT_COLUMNS[col_idx]],
                                     row_idx))]]]

\* MRPAnalyzer._save_formatted_excel: the workbook written for df, one
\* sheet named "Critical Items"
_save_formatted_excel(df) ==
    [sheet_name |-> "Critical Items", worksheet |-> _format_excel(df)]

\* datetime.now().strftime("%Y-%m-%d_%H-%M-%S"): the day, hour, minute and
\* second of the clock reading
strftime(now) ==
    [date |-> now \div 86400, H |-> (now \div 3600) % 24,
     M |-> (now \div 60) % 60, S |-> now % 60]

\* hist_dir / f"itens_criticos_{timestamp}.xlsx"
hist_path(now) ==
    [dir |-> HISTORY_DIR, prefix |-> "itens_criticos_",
     timestamp |-> strftime(now), suffix |-> ".xlsx"]

\* A history step that creates the directory and writes no copy
_save_history_no_copy(output_df, fault, now, fs) ==
    [raised |-> None, fs |-> [fs EXCEPT !.histDir = TRUE]]

\* A history step that empties the directory before it writes its copy
_save_history_latest_only(output_df, fault, now, fs) ==
    IF fault = "mkdir" /\ ~fs.histDir
    THEN [raised |-> Some(Raise("OSError", "mkdir", <<>>, <<>>)), fs |-> fs]
    ELSE IF fault = "history"
    THEN [raised |-> Some(Raise("OSError", "write", <<>>, <<>>)),
          fs |-> [fs EXCEPT !.histDir = TRUE]]
    ELSE [raised |-> NoError,
          fs |-> [fs EXCEPT !.histDir = TRUE,
                            !.hist = [p \in {hist_path(now)} |->
                                        _save_formatted_excel(output_df)]]]

\* MRPAnalyzer._save_history: mkdir(exist_ok=True), then the copy named by
\* the current second; an existing file of that name is overwritten.
\* fs is [out, histDir, hist]; the result is [raised, fs].
_save_history(output_df, fault, now, fs) ==
    IF fault = "mkdir" /\ ~fs.histDir
    THEN [raised |-> Some(Raise("OSError", "mkdir", <<>>, <<>>)), fs |-> fs]
    ELSE IF fault = "history"
    THEN [raised |-> Some(Raise("OSError", "write", <<>>, <<>>)),
          fs |-> [fs EXCEPT !.histDir = TRUE]]
    ELSE [raised |-> NoError,
          fs |-> [fs EXCEPT !.histDir = TRUE,
                            !.hist = [p \in DOMAIN fs.hist \cup {hist_path(now)} |->
                                        IF p = hist_path(now)
                                        THEN _save_formatted_excel(output_df)
                                        ELSE fs.hist[p]]]]

\* Saving skipped when there is no critical row
_save_results_skip_empty(output_df, fault, now, fs) ==
    IF output_df = <<>>
    THEN [raised |-> NoError, fs |-> fs]
    ELSE IF fault = "primary"
    THEN [raised |-> Some(Raise("OSError", "write", <<>>, <<>>)), fs |-> fs]
    ELSE _save_history(output_df, fault, now,
                       [fs EXCEPT !.out = Some(_save_formatted_excel(output_df))])

\* The primary file opened for appending: the new data rows are written
\* after those of the file already there
_save_results_append(output_df, fault, now, fs) ==
    IF fault = "primary"
    THEN [raised |-> Some(Raise("OSError", "write", <<>>, <<>>)), fs |-> fs]
    ELSE _save_history(output_df, fault, now,
            [fs EXCEPT !.out =
                Some(IF IsSome(fs.out)
                     THEN [_save_formatted_excel(output_df) EXCEPT
                             !.worksheet.rows = Val(fs.out).worksheet.rows \o @]
                     ELSE _save_formatted_excel(output_df))])

\* The history copy written first, the primary file after it
_save_results_history_first(output_df, fault, now, fs) ==
    LET h == _save_history(output_df, fault, now, fs)
    IN  IF IsSome(h.raised) THEN h
        ELSE IF fault = "primary"
        THEN [raised |-> Some(Raise("OSError", "write", <<>>, <<>>)), fs |-> h.fs]
        ELSE [raised |-> NoError,
              fs |-> [h.fs EXCEPT !.out = Some(_save_formatted_excel(output_df))]]

\* MRPAnalyzer._save_results: the primary file first, then the history
_save_results(output_df, fault, now, fs) ==
    IF fault = "primary"
    THEN [raised |-> Some(Raise("OSError", "write", <<>>, <<>>)), fs |-> fs]
    ELSE _save_history(output_df, fault, now,
                       [fs EXCEPT !.out = Some(_save_formatted_excel(output_df))])

---------------------------------------------------------------------------
(* MRPAnalyzer.analyze: its steps; the action Analyze chains them *)

\* An except clause that reports a count of zero next to the message
Except_zero_count(e) ==
    [count |-> Some(0),
     error |-> Some([label |-> IF e.exc = "ValidationError"
                               THEN "Validation error"
                               ELSE "Error during analysis",
                     kind |-> e.kind, cols |-> e.cols, rows |-> e.rows]),
     table |-> None]

\* The two except clauses: the returned triple for a raised exception
Except(e) ==
    [count |-> None,
     error |-> Some([label |-> IF e.exc = "ValidationError"
                               THEN "Validation error"
                               ELSE "Error during analysis",
                     kind |-> e.kind, cols |-> e.cols, rows |-> e.rows]),
     table |-> None]

\* return len(output_df), None, output_df
Return(output_df) ==
    [count |-> Some(Len(output_df)), error |-> None, table |-> Some(output_df)]

\* pd.read_excel: the sheet, or the exception raised
read_excel(input) ==
    IF ~IsSome(input)
    THEN [raised |-> Some(Raise("FileNotFoundError", "File not found", <<>>, <<>>)),
          sheet |-> [header |-> <<>>, body |-> <<>>]]
    ELSE LET sheet == Val(input)
             bad == UnconvertibleColumns(sheet)
             first == CHOOSE j \in bad : \A k \in bad : j <= k
         IN  IF bad # {}
             THEN [raised |-> Some(Raise("ValueError", "Unable to convert column",
                                         <<DtypeKey(sheet.header[first])>>, <<>>)),
                   sheet |-> sheet]
             ELSE [raised |-> NoError, sheet |-> sheet]

Validate(df) ==
    LET e1 == validate_required_columns(df, REQUIRED_COLUMNS)
        e2 == validate_numeric_columns(df, NUMERIC_COLUMNS)
        e3 == validate_positive_values(df, NUMERIC_COLUMNS)
    IN  IF IsSome(e1) THEN e1 ELSE IF IsSome(e2) THEN e2 ELSE e3

---------------------------------------------------------------------------
(* The module-level analyze_mrp of src/mrp_analyzer.py: the same steps     *)
(* with its own messages, sheet name and saving code                       *)

\* The message texts of the module-level functions
Mensagem(kind) ==
    CASE kind = "File not found" -> "Arquivo não encontrado"
      [] kind = "Required columns missing" -> "Colunas obrigatórias ausentes"
      [] kind = "Non-numeric values found" -> "Valores não numéricos encontrados"
      [] kind = "Negative values found" -> "Valores negativos encontrados"
      [] OTHER -> kind

\* The two except clauses of analyze_mrp
analyze_mrp_except(e) ==
    [count |-> None,
     error |-> Some([label |-> IF e.exc = "ValidationError"
                               THEN "Erro de validação"
                               ELSE "Erro durante a análise",
                     kind |-> Mensagem(e.kind), cols |-> e.cols, rows |-> e.rows]),
     table |-> None]

\* salvar_excel_formatado: the workbook, one sheet named "Itens Críticos"
salvar_excel_formatado(df) ==
    [sheet_name |-> "Itens Críticos", worksheet |-> _format_excel(df)]

\* analyze_mrp, the saving steps: the primary file, os.makedirs of the
\* history directory, the history copy
analyze_mrp_save(criticos, fault, now, fs) ==
    IF fault = "primary"
    THEN [raised |-> Some(Raise("OSError", "write", <<>>, <<>>)), fs |-> fs]
    ELSE IF fault = "mkdir" /\ ~fs.histDir
    THEN [raised |-> Some(Raise("OSError", "mkdir", <<>>, <<>>)),
          fs |-> [fs EXCEPT !.out = Some(salvar_excel_formatado(criticos))]]
    ELSE IF fault = "history"
    THEN [raised |-> Some(Raise("OSError", "write", <<>>, <<>>)),
          fs |-> [fs EXCEPT !.out = Some(salvar_excel_formatado(criticos)),
                            !.histDir = TRUE]]
    ELSE [raised |-> NoError,
          fs |-> [fs EXCEPT !.out = Some(salvar_excel_formatado(criticos)),
                            !.histDir = TRUE,
                            !.hist = [p \in DOMAIN fs.hist \cup {hist_path(now)} |->
                                        IF p = hist_path(now)
                                        THEN salvar_excel_formatado(criticos)
                                        ELSE fs.hist[p]]]]

\* What the standalone command of src/src/core/mrp_analyzer.py does with
\* the returned triple: the error on stderr and status 1, or the count and
\* the output path on stdout and status 0
Exit(triple) ==
    IF IsSome(triple.error)
    THEN [exit |-> 1, stdout |-> <<>>,
          stderr |-> <<[text |-> "Error:", error |-> Val(triple.error)]>>]
    ELSE [exit |-> 0,
          stdout |-> <<[text |-> "critical items identified.", count |-> Val(triple.count)],
                       [text |-> "Results saved to:"]>>,
          stderr |-> <<>>]

\* The interpreter ending on an uncaught exception: the traceback on
\* stderr and status 1
Uncaught(exc, name) ==
    [exit |-> 1, stdout |-> <<>>,
     stderr |-> <<[text |-> "Traceback", error |-> Raise(exc, name, <<>>, <<>>)]>>]

---------------------------------------------------------------------------
(* The input sheets explored *)

SeqsUpTo(S, n) == UNION {[1..k -> S] : k \in 0..n}

\* " estq10 " for ESTQ10: lower case, surrounded by blanks
Padded(col) == <<" ">> \o lower(Chars[col]) \o <<" ">>

\* A spelling with inner blanks or periods, where the sheet has one
Dotted(col) ==
    CASE col = "ESTOQSEG" -> <<"E","s","t","o","q","."," ","S","e","g">>
      [] col = "DEMANDAMRP" -> <<"D","e","m","a","n","d","a"," ","M","R","P">>
      [] OTHER -> Chars[col]

CanonicalSpelling == [c \in Range(REQUIRED_COLUMNS) |-> Chars[c]]

\* DEMANDAMRP and ESTOQSEG each canonical, padded or dotted
HeaderSpellings ==
    {[CanonicalSpelling EXCEPT !["DEMANDAMRP"] = d, !["ESTOQSEG"] = e] :
        d \in {Chars["DEMANDAMRP"], Padded("DEMANDAMRP"), Dotted("DEMANDAMRP")},
        e \in {Chars["ESTOQSEG"], Padded("ESTOQSEG"), Dotted("ESTOQSEG")}}

\* The quantity columns in `cols` padded, the rest canonical
PaddedSpelling(cols) ==
    [c \in Range(REQUIRED_COLUMNS) |-> IF c \in cols THEN Padded(c) ELSE Chars[c]]

\* The header row: the required columns not in `drop`, spelled by `spell`,
\* followed by a STATUS column when `status`
Layout(drop, spell, status) ==
    [j \in 1..Len(SelectSeq(REQUIRED_COLUMNS, LAMBDA c : c \notin drop)) |->
        LET c == SelectSeq(REQUIRED_COLUMNS, LAMBDA x : x \notin drop)[j]
        IN  [col |-> c, raw |-> spell[c]]]
    \o (IF status THEN <<[col |-> "STATUS", raw |-> Chars["STATUS"]]>> ELSE <<>>)

Canonical == Layout({}, CanonicalSpelling, FALSE)

\* The cell of row i under column `col`; r gives the quantity and status
\* cells, the texts are fixed by the row number, every other OBS is blank
CellFor(col, r, i) ==
    CASE col \in DOMAIN r -> r[col]
      [] col = "CÓD" -> Txt(i)
      [] col = "DESCRIÇÃOPROMOB" -> Txt(10 + i)
      [] col = "FORNECEDORPRINCIPAL" -> Txt(20 + i)
      [] col = "OBS" -> IF i % 2 = 1 THEN Txt(30 + i) ELSE NaN

Sheet(layout, rs) ==
    [header |-> [j \in 1..Len(layout) |-> layout[j].raw],
     body |-> [i \in 1..Len(rs) |->
                 [j \in 1..Len(layout) |-> CellFor(layout[j].col, rs[i], i)]]]

RowKeys == Range(NUMERIC_COLUMNS) \cup {"STATUS"}

Row(e10, e20, d, s, p, st) ==
    [c \in RowKeys |->
        CASE c = "ESTQ10" -> e10 [] c = "ESTQ20" -> e20 [] c = "DEMANDAMRP" -> d
          [] c = "ESTOQSEG" -> s [] c = "PEDIDOS" -> p [] c = "STATUS" -> st]

Qty == {Num(n) : n \in 0..MaxQty}

\* Every row of quantities within the bound
NumRows == {Row(e10, e20, d, s, p, Txt(40)) : e10 \in Qty, e20 \in Qty, d \in Qty,
                                              s \in Qty, p \in Qty}

\* Rows differing in demand and safety stock only: not critical, or
\* critical with quantity MaxQty or 2 * MaxQty
OrderRows ==
    {Row(Num(0), Num(0), d, s, Num(0), Txt(40)) :
        d \in {Num(0), Num(MaxQty)}, s \in {Num(0), Num(MaxQty)}}

\* A critical and a non-critical row, with each status text
StatusRows ==
    {Row(Num(0), Num(0), Num(0), s, Num(0), Txt(id)) :
        s \in {Num(0), Num(MaxQty)}, id \in DOMAIN StatusText}

\* Rows whose first and last quantity cell may be negative, blank or a text
DirtyCells == {Num(0), Num(-1), NaN, Txt(9)}
DirtyRows ==
    {Row(e10, Num(0), Num(1), Num(0), p, Txt(40)) :
        e10 \in DirtyCells, p \in DirtyCells \ {NaN}}

\* Rows without stock or demand: critical when the safety stock is
\* positive, the on-order quantity covering the shortfall or not
PedidosRows ==
    {Row(Num(0), e20, Num(0), s, p, Txt(40)) : e20 \in {Num(0), Num(1)}, s \in Qty, p \in Qty}

\* The two rows worked out in the specification's scenarios
ExampleRows ==
    {Row(Num(10), Num(30), Num(15), Num(5), Num(2), Txt(40)),
     Row(Num(5), Num(0), Num(20), Num(10), Num(0), Txt(40))}

\* A valid row, and the same row with one quantity cell left blank
BlankRows ==
    {[Row(Num(1), Num(0), Num(1), Num(1), Num(0), Txt(40)) EXCEPT ![c] = NaN] :
        c \in Range(NUMERIC_COLUMNS)}
    \cup {Row(Num(1), Num(0), Num(1), Num(1), Num(0), Txt(40))}

\* Rows without stock or demand: not critical, critical with quantity 1,
\* or critical with the shortfall covered by the quantity on order
FormatRows ==
    {Row(Num(0), Num(0), Num(0), s, p, Txt(40)) : s \in {Num(0), Num(1)}, p \in {Num(0), Num(1)}}

CalcSheets == {Sheet(Canonical, <<r>>) : r \in NumRows \cup ExampleRows}

FormatSheets == {Sheet(Canonical, rs) : rs \in SeqsUpTo(FormatRows, MaxRows) \ {<<>>}}

BlankSheets == {Sheet(Canonical, rs) : rs \in SeqsUpTo(BlankRows, MaxRows) \ {<<>>}}

OrderSheets == {Sheet(Canonical, rs) : rs \in SeqsUpTo(OrderRows, MaxRows)}

StatusSheets ==
    {Sheet(Layout({}, CanonicalSpelling, TRUE), rs) :
        rs \in SeqsUpTo(StatusRows, MaxRows) \ {<<>>}}

DirtySheets ==
    {Sheet(Layout({}, sp, FALSE), rs) :
        sp \in {CanonicalSpelling, PaddedSpelling({"ESTQ10"}),
                PaddedSpelling(Range(NUMERIC_COLUMNS))},
        rs \in SeqsUpTo(DirtyRows, MaxRows) \ {<<>>}}

HeaderSheets ==
    {Sheet(Layout(drop, sp, FALSE), rs) :
        drop \in {d \in SUBSET Range(REQUIRED_COLUMNS) : Cardinality(d) <= MaxMissing},
        sp \in HeaderSpellings,
        rs \in {<<Row(Num(0), Num(0), Num(1), Num(0), Num(0), Txt(40))>>,
                <<Row(Num(0), Num(0), Num(1), Num(0), Txt(9), Txt(40))>>}}

\* The sheets on which one invocation is explored
InputSheets ==
    CalcSheets \cup OrderSheets \cup StatusSheets \cup DirtySheets \cup HeaderSheets
    \cup BlankSheets \cup FormatSheets

\* The sheets on which sequences of invocations are explored
LifecycleSheets ==
    OrderSheets
    \cup {Sheet(Canonical, <<r>>) : r \in PedidosRows \cup DirtyRows}
    \cup {Sheet(Layout({"OBS"}, CanonicalSpelling, FALSE), <<>>)}

\* The contents an input file is given between calls: no row, one row that
\* is critical or not, one row with an invalid cell, a missing column
CachedSheets ==
    {Sheet(Canonical, rs) : rs \in SeqsUpTo(OrderRows, 1)}
    \cup {Sheet(Canonical, <<r>>) : r \in DirtyRows}
    \cup {Sheet(Layout({"OBS"}, CanonicalSpelling, FALSE), <<>>)}

---------------------------------------------------------------------------
(* The state machine *)

\* GUIConfig of src/mrp_gui.py: the field the model reads, with its default
GUIConfig == [page_size |-> 50]

\* AppState(): an empty table, page 0 of 0; page_size is config.page_size
AppState(page_size) ==
    [df_table |-> <<>>, current_page |-> 0, total_pages |-> 0,
     page_size |-> page_size]

\* MRPGUI.__init__: the application state, no comparison file loaded, the
\* widgets empty (tree and columns are the rows and the column headings of
\* the table tab) and the progress bar at rest. dir is the folder of the
\* selected file (file name -> workbook); after is the callback scheduled
\* with root.after; output_file and file_path are the locals of that name
\* in the last _execute_analysis and _load_table; thread is the thread that
\* ran the last analysis; event is the last handler run, raised the
\* exception it let escape into Tk and dialog the last message box it showed
MRPGUI(page_size, dir) ==
    [state |-> AppState(page_size),
     compare_before |-> None, compare_after |-> None,
     tree |-> <<>>, columns |-> <<>>, compare_tree |-> <<>>,
     progress |-> "stopped", after |-> None, thread |-> None,
     dir |-> dir, output_file |-> None, file_path |-> None,
     event |-> "__init__", raised |-> None, dialog |-> None]

fs == [out |-> out, histDir |-> histDir, hist |-> hist]

Start ==
    /\ result = None
    /\ out = None
    /\ histDir = FALSE
    /\ hist = <<>>
    /\ clock = 0
    /\ cache = None
    /\ proc = None
    /\ analyzer = __init__(MRPConfig)
    /\ gui = MRPGUI(GUIConfig.page_size, <<>>)

Init ==
    /\ file \in {None} \cup {Some(sh) : sh \in LifecycleSheets}
    /\ Start

InitInputs ==
    /\ file \in {None} \cup {Some(sh) : sh \in InputSheets}
    /\ Start

InitCached ==
    /\ file \in {None} \cup {Some(sh) : sh \in CachedSheets}
    /\ Start

\* The body with the check for negative values run after the report is
\* saved
AnalyzeCall_check_negative_last ==
    \E rd \in {read_excel(file)} :
    \E df \in {NormalizeColumns(rd.sheet)} :
    \E ex \in {IF IsSome(rd.raised) THEN rd.raised
               ELSE IF IsSome(validate_required_columns(df, REQUIRED_COLUMNS))
               THEN validate_required_columns(df, REQUIRED_COLUMNS)
               ELSE validate_numeric_columns(df, NUMERIC_COLUMNS)} :
      IF IsSome(ex)
      THEN /\ result' = Some(Except(Val(ex)))
           /\ UNCHANGED <<out, histDir, hist>>
      ELSE \E output_df \in {CriticalItems(df, 1)} :
           \E fault \in Faults :
           \E saved \in {_save_results(output_df, fault, clock, fs)} :
           \E late \in {validate_positive_values(df, NUMERIC_COLUMNS)} :
             /\ result' = Some(IF IsSome(saved.raised)
                               THEN Except(Val(saved.raised))
                               ELSE IF IsSome(late) THEN Except(Val(late))
                               ELSE Return(output_df))
             /\ out' = saved.fs.out
             /\ histDir' = saved.fs.histDir
             /\ hist' = saved.fs.hist

\* The body of MRPAnalyzer.analyze(input_file, sheet_name, output_file),
\* start to return: read, normalize, validate, compute, save, and the two
\* except clauses
AnalyzeCall ==
    \E rd \in {read_excel(file)} :
    \E df \in {NormalizeColumns(rd.sheet)} :
    \E ex \in {IF IsSome(rd.raised) THEN rd.raised ELSE Validate(df)} :
      IF IsSome(ex)
      THEN /\ result' = Some(Except(Val(ex)))
           /\ UNCHANGED <<out, histDir, hist>>
      ELSE \E output_df \in {CriticalItems(df, 1)} :
           \E fault \in Faults :
           \E saved \in {_save_results(output_df, fault, clock, fs)} :
             /\ result' = Some(IF IsSome(saved.raised)
                               THEN Except(Val(saved.raised))
                               ELSE Return(output_df))
             /\ out' = saved.fs.out
             /\ histDir' = saved.fs.histDir
             /\ hist' = saved.fs.hist

\* One invocation of MRPAnalyzer.analyze
Analyze ==
    /\ AnalyzeCall
    /\ UNCHANGED <<file, clock, cache, proc, analyzer, gui>>

\* A second passes
Tick ==
    /\ clock < MaxClock
    /\ clock' = clock + 1
    /\ UNCHANGED <<file, result, out, histDir, hist, cache, proc, analyzer, gui>>

\* One call of the module-level analyze_mrp of src/mrp_analyzer.py, which
\* is wrapped in lru_cache: a call whose arguments are in the cache returns
\* the stored triple and runs nothing; otherwise the body runs and the
\* triple it returns, error triples included, is stored
analyze_mrp ==
    /\ IF IsSome(cache)
       THEN /\ result' = cache
            /\ UNCHANGED <<out, histDir, hist, cache>>
       ELSE /\ \E rd \in {read_excel(file)} :
               \E df \in {NormalizeColumns(rd.sheet)} :
               \E ex \in {IF IsSome(rd.raised) THEN rd.raised ELSE Validate(df)} :
                 IF IsSome(ex)
                 THEN /\ result' = Some(analyze_mrp_except(Val(ex)))
                      /\ UNCHANGED <<out, histDir, hist>>
                 ELSE \E criticos \in {CriticalItems(df, 1)} :
                      \E fault \in Faults :
                      \E saved \in {analyze_mrp_save(criticos, fault, clock, fs)} :
                        /\ result' = Some(IF IsSome(saved.raised)
                                          THEN analyze_mrp_except(Val(saved.raised))
                                          ELSE Return(criticos))
                        /\ out' = saved.fs.out
                        /\ histDir' = saved.fs.histDir
                        /\ hist' = saved.fs.hist
            /\ cache' = result'
    /\ UNCHANGED <<file, clock, proc, analyzer, gui>>

\* Between two invocations the input file is replaced by other contents (or
\* removed); the triple of the invocation on the old contents is dropped
Replace ==
    /\ \E f \in ({None} \cup {Some(sh) : sh \in CachedSheets}) \ {file} : file' = f
    /\ result' = None
    /\ UNCHANGED <<out, histDir, hist, clock, cache, proc, analyzer, gui>>

\* src/src/core/mrp_analyzer.py run as a command with an input file and a
\* sheet name: analyze, then the messages and the exit status
Main ==
    /\ AnalyzeCall
    /\ proc' = Some(Exit(Val(result')))
    /\ UNCHANGED <<file, clock, cache, analyzer, gui>>

\* src/mrp_analyzer.py run as a command with an input file and a sheet
\* name: the call of analyze_mrp_from_excel, a name the module does not
\* define, raises NameError before anything is read or written
Main_twin ==
    /\ proc' = Some(Uncaught("NameError", "analyze_mrp_from_excel"))
    /\ UNCHANGED <<file, result, out, histDir, hist, clock, cache, analyzer, gui>>

Next == Analyze \/ Tick

\* Sequences of invocations over time
Spec == Init /\ [][Next]_vars

NextInputs == Analyze

\* Invocations on one input at one time, over the full set of input sheets
SpecInputs == InitInputs /\ [][NextInputs]_vars

NextCached == analyze_mrp \/ Replace \/ Tick

\* Calls of the cached analyze_mrp with the same arguments, the input file
\* changing in between
SpecCached == InitCached /\ [][NextCached]_vars

\* The contents of the input file between invocations of
\* MRPAnalyzer.analyze: no row, one row that is critical or not, one row
\* whose first quantity cell is negative, blank or a text, a missing column
HistorySheets ==
    {Sheet(Canonical, rs) : rs \in SeqsUpTo(OrderRows, 1)}
    \cup {Sheet(Canonical, <<Row(e10, Num(0), Num(1), Num(0), Num(0), Txt(40))>>) :
            e10 \in DirtyCells \ {Num(0)}}
    \cup {Sheet(Layout({"OBS"}, CanonicalSpelling, FALSE), <<>>)}

InitHistory ==
    /\ file \in {None} \cup {Some(sh) : sh \in HistorySheets}
    /\ Start

\* Between two invocations the input file is overwritten or removed; the
\* triple of the invocation on the old contents is dropped
Overwrite ==
    /\ \E f \in ({None} \cup {Some(sh) : sh \in HistorySheets}) \ {file} : file' = f
    /\ result' = None
    /\ UNCHANGED <<out, histDir, hist, clock, cache, proc, analyzer, gui>>

NextHistory == Analyze \/ Overwrite \/ Tick

\* Invocations of MRPAnalyzer.analyze over time, the input file changing in
\* between
SpecHistory == InitHistory /\ [][NextHistory]_vars

NextCommand == Main \/ Main_twin

\* The two analyzer modules run as commands
SpecCommand == Init /\ [][NextCommand]_vars

---------------------------------------------------------------------------
(* Properties *)

Ran == IsSome(result)
Res == Val(result)
Succeeded == Ran /\ Res.error = None

\* Quantities of an output row, in thirds of a unit
Avail3(row) == 3 * row["ESTQ10"].val + row["ESTQ20"].val
Shortfall3(row) ==
    3 * row["DEMANDAMRP"].val - Avail3(row)
    + 3 * row["ESTOQSEG"].val - 3 * row["PEDIDOS"].val
Max0(x) == IF x < 0 THEN 0 ELSE x

\* n is the whole number nearest to m / 3
NearestThird(n, m) == 3 * n - m \in {-1, 0, 1}

\* The records of a written workbook: data row k as column name -> value
Records(wb) ==
    [k \in 1..Len(wb.worksheet.rows) |->
        [c \in {wb.worksheet.header[j].value : j \in 1..Len(wb.worksheet.header)} |->
            wb.worksheet.rows[k][CHOOSE j \in 1..Len(wb.worksheet.header) :
                                    wb.worksheet.header[j].value = c].value]]

\* Every table returned or written so far
Tables ==
    (IF Ran /\ IsSome(Res.table) THEN {Val(Res.table)} ELSE {})
    \cup (IF IsSome(out) THEN {Records(Val(out))} ELSE {})
    \cup {Records(hist[p]) : p \in DOMAIN hist}

C10_ExactlyOneOfErrorAndResult ==
    Ran =>
        \/ Res.error = None /\ IsSome(Res.count) /\ IsSome(Res.table)
        \/ IsSome(Res.error) /\ Res.count = None /\ Res.table = None

\* An invocation that failed while writing the history, after the primary
\* output was written
C10_Witness ==
    /\ Ran
    /\ IsSome(Res.error)
    /\ Val(Res.error).label = "Error during analysis"
    /\ Val(Res.error).kind = "write"
    /\ IsSome(out)
    /\ Res.count = None /\ Res.table = None

\* The input as the validator sees it, for a present input file
InputFrame == NormalizeColumns(Val(file))

\* Row i of the input has (ESTQ10 + ESTQ20/3) - DEMANDAMRP < ESTOQSEG
IsCritical(df, i) ==
    3 * At(df, i, "ESTQ10").val + At(df, i, "ESTQ20").val
        - 3 * At(df, i, "DEMANDAMRP").val
    < 3 * At(df, i, "ESTOQSEG").val

Codes(T) == {T[k]["CÓD"] : k \in 1..Len(T)}

WasRead == IsSome(file) /\ UnconvertibleColumns(Val(file)) = {}

\* C7: when the normalized input lacks required columns, the invocation
\* fails with an error naming every absent required column and no present
\* one, and returns no count and no table.
C7_AllMissingColumnsNamed ==
    (Ran /\ WasRead) =>
        \A df \in {InputFrame} :
            LET absent == {c \in Range(REQUIRED_COLUMNS) :
                              \A j \in 1..Len(df.columns) : df.columns[j] # Chars[c]}
            IN  absent # {} =>
                    /\ IsSome(Res.error)
                    /\ Val(Res.error).kind = "Required columns missing"
                    /\ Range(Val(Res.error).cols) = absent
                    /\ Len(Val(Res.error).cols) = Cardinality(absent)
                    /\ Res.count = None
                    /\ Res.table = None

\* An input without CÓD and OBS, and the error naming the two
C7_Witness ==
    /\ Ran
    /\ WasRead
    /\ IsSome(Res.error)
    /\ Val(Res.error).kind = "Required columns missing"
    /\ Val(Res.error).cols = <<"CÓD", "OBS">>

\* The normalization as claimed: blanks and periods removed, upper case
ClaimedNormalize(h) == upper(SelectSeq(h, LAMBDA ch : ch \notin Whitespace \cup {"."}))

\* h is `name` up to letter case and surrounding whitespace
SameUpToCaseAndPadding(h, name) ==
    \E a \in 0..(Len(h) - Len(name)) :
        /\ \A k \in 1..a : h[k] \in Whitespace
        /\ \A k \in (a + Len(name) + 1)..Len(h) : h[k] \in Whitespace
        /\ \A k \in 1..Len(name) : UpperChar(h[a + k]) = name[k]

ReportedMissing ==
    IF IsSome(Res.error) /\ Val(Res.error).kind = "Required columns missing"
    THEN Range(Val(Res.error).cols)
    ELSE {}

\* C8 as claimed: a header that differs from a required name only in case,
\* spaces or periods is accepted as that required column.
C8_SpacesAndPeriodsIgnored ==
    (Ran /\ WasRead) =>
        \A c \in Range(REQUIRED_COLUMNS) :
            (\E j \in 1..Len(Val(file).header) :
                ClaimedNormalize(Val(file).header[j]) = Chars[c])
            => c \notin ReportedMissing

\* C8 amended: headers are normalized by trimming surrounding whitespace
\* and uppercasing only; a required column is accepted exactly when some
\* header equals its name up to case and surrounding whitespace, and a
\* header with inner spaces or periods leaves its column reported missing.
C8_OnlyCaseAndPaddingIgnored ==
    (Ran /\ WasRead) =>
        LET missing == {c \in Range(REQUIRED_COLUMNS) :
                           \A j \in 1..Len(Val(file).header) :
                               ~SameUpToCaseAndPadding(Val(file).header[j], Chars[c])}
        IN  /\ ReportedMissing = missing
            /\ missing # {} => IsSome(Res.error)

\* " demandamrp " accepted as DEMANDAMRP while "Estoq. Seg" leaves
\* ESTOQSEG reported missing
C8_Witness ==
    /\ Ran
    /\ WasRead
    /\ \E j \in 1..Len(Val(file).header) :
         Val(file).header[j] = Padded("DEMANDAMRP")
    /\ \E j \in 1..Len(Val(file).header) :
         Val(file).header[j] = Dotted("ESTOQSEG")
    /\ ReportedMissing = {"ESTOQSEG"}

\* C9 as claimed: a non-numeric or negative cell in a quantity column makes
\* the invocation fail with a validation error naming an offending column
\* and the 0-based indices of all its offending rows; a non-numeric cell is
\* never reported as negative.
C9_InvalidCellsReported ==
    (Ran /\ IsSome(file)) =>
        \A df \in {InputFrame} :
            (\A c \in Range(REQUIRED_COLUMNS) : HasColumn(df, c)) =>
                LET nonNumeric(c) ==
                        {i - 1 : i \in {r \in 1..Len(df.data) : At(df, r, c).kind # "num"}}
                    negative(c) ==
                        {i - 1 : i \in {r \in 1..Len(df.data) :
                                          /\ At(df, r, c).kind = "num"
                                          /\ At(df, r, c).val < 0}}
                    offending == {c \in Range(NUMERIC_COLUMNS) :
                                     nonNumeric(c) \cup negative(c) # {}}
                IN  offending # {} =>
                        /\ IsSome(Res.error)
                        /\ Val(Res.error).label = "Validation error"
                        /\ Len(Val(Res.error).cols) = 1
                        /\ Val(Res.error).cols[1] \in offending
                        /\ Range(Val(Res.error).rows) # {}
                        /\ \/ /\ Val(Res.error).kind = "Non-numeric values found"
                              /\ Range(Val(Res.error).rows)
                                    = nonNumeric(Val(Res.error).cols[1])
                           \/ /\ Val(Res.error).kind = "Negative values found"
                              /\ Range(Val(Res.error).rows)
                                    = negative(Val(Res.error).cols[1])

\* The input file exists, has every required column, and every cell of its
\* quantity columns is a number that is not negative
ValidInput ==
    /\ IsSome(file)
    /\ \A df \in {InputFrame} :
         /\ \A c \in Range(REQUIRED_COLUMNS) : HasColumn(df, c)
         /\ \A c \in Range(NUMERIC_COLUMNS) : \A i \in 1..Len(df.data) :
              At(df, i, c).kind = "num" /\ At(df, i, c).val >= 0

\* The invocation failed while writing an output file or creating the
\* history directory
WriteFailed ==
    /\ Ran
    /\ IsSome(Res.error)
    /\ Val(Res.error).kind \in {"write", "mkdir"}

\* The workbook has the header row of the output columns and no data row
HeaderOnly(wb) ==
    /\ [j \in 1..Len(wb.worksheet.header) |-> wb.worksheet.header[j].value]
          = OUTPUT_COLUMNS
    /\ wb.worksheet.rows = <<>>

ValidButForBlanks ==
    /\ IsSome(file)
    /\ \A df \in {InputFrame} :
         /\ \A c \in Range(REQUIRED_COLUMNS) : HasColumn(df, c)
         /\ \A c \in Range(NUMERIC_COLUMNS) : \A i \in 1..Len(df.data) :
              \/ At(df, i, c).kind = "nan"
              \/ At(df, i, c).kind = "num" /\ At(df, i, c).val >= 0
         /\ \E c \in Range(NUMERIC_COLUMNS) : \E i \in 1..Len(df.data) :
              At(df, i, c).kind = "nan"

\* C12 as claimed: a blank cell in a quantity column is read as 0; the
\* invocation succeeds (unless a write fails) and returns the rows that are
\* critical with 0 in place of the blank.
C12_BlankTreatedAsZero ==
    (Ran /\ ValidButForBlanks) =>
        \/ WriteFailed
        \/ /\ Succeeded
           /\ \A df \in {InputFrame} :
                Codes(Val(Res.table))
                    = {At(df, i, "CÓD") : i \in {r \in 1..Len(df.data) : IsCritical(df, r)}}

\* C12 amended: a blank cell in a quantity column is not read as 0; the
\* invocation fails with the validation error "Non-numeric values found"
\* naming the first quantity column (in the order ESTQ10, ESTQ20,
\* DEMANDAMRP, ESTOQSEG, PEDIDOS) that holds a blank and the 0-based indices
\* of its blank rows, returns no count and no table and writes nothing.
C12_BlankCellRejected ==
    (Ran /\ ValidButForBlanks) =>
        \A df \in {InputFrame} :
            LET blank(c) == {i \in 1..Len(df.data) : At(df, i, c).kind = "nan"}
                k == CHOOSE j \in 1..Len(NUMERIC_COLUMNS) :
                        /\ blank(NUMERIC_COLUMNS[j]) # {}
                        /\ \A h \in 1..(j - 1) : blank(NUMERIC_COLUMNS[h]) = {}
            IN  /\ IsSome(Res.error)
                /\ Val(Res.error).label = "Validation error"
                /\ Val(Res.error).kind = "Non-numeric values found"
                /\ Val(Res.error).cols = <<NUMERIC_COLUMNS[k]>>
                /\ Range(Val(Res.error).rows) = {i - 1 : i \in blank(NUMERIC_COLUMNS[k])}
                /\ Res.count = None
                /\ Res.table = None
                /\ out = None
                /\ hist = <<>>

\* Two valid rows but for a blank PEDIDOS cell in the second: the error
\* names PEDIDOS and row 1
C12_Witness ==
    /\ Ran
    /\ ValidButForBlanks
    /\ IsSome(Res.error)
    /\ Val(Res.error).kind = "Non-numeric values found"
    /\ Val(Res.error).cols = <<"PEDIDOS">>
    /\ Val(Res.error).rows = <<1>>

\* p names a file itens_criticos_<YYYY-MM-DD_HH-MM-SS>.xlsx under
\* historico_mrp whose timestamp is second t
IsHistoryName(p, t) ==
    /\ p.dir = "historico_mrp"
    /\ p.prefix = "itens_criticos_"
    /\ p.suffix = ".xlsx"
    /\ p.timestamp.date * 86400 + p.timestamp.H * 3600
          + p.timestamp.M * 60 + p.timestamp.S = t
    /\ p.timestamp.H \in 0..23 /\ p.timestamp.M \in 0..59 /\ p.timestamp.S \in 0..59

C15_EachCallReadsTheInput ==
    Ran =>
        /\ Succeeded =>
              /\ ValidInput
              /\ \A df \in {InputFrame} :
                   Val(Res.count)
                       = Cardinality({i \in 1..Len(df.data) : IsCritical(df, i)})
              /\ IsSome(out)
              /\ Records(Val(out)) = Val(Res.table)
              /\ \E p \in DOMAIN hist : hist[p] = Val(out)
        /\ (IsSome(Res.error) /\ ~WriteFailed) => ~ValidInput
        /\ (IsSome(Res.error) /\ Val(Res.error).kind = "Arquivo não encontrado")
              => file = None

\* The input file exists and fails the column check or the data check: a
\* required column is absent, or a cell of a quantity column is not a
\* number or is negative
FailsValidation ==
    /\ IsSome(file)
    /\ \A df \in {InputFrame} :
         \/ \E c \in Range(REQUIRED_COLUMNS) : ~HasColumn(df, c)
         \/ \E c \in Range(NUMERIC_COLUMNS) : \E i \in 1..Len(df.data) :
              \/ At(df, i, c).kind # "num"
              \/ At(df, i, c).val < 0

\* C16 as claimed: a failure carries the label of its kind: the
\* validation-error label when the input fails the column check or the
\* numeric/non-negative check (a non-numeric cell in a quantity column
\* included), the generic analysis-error label when the input file is
\* missing or a write fails; never the other label.
C16_FailureLabelledByKind ==
    (Ran /\ IsSome(Res.error)) =>
        Val(Res.error).label =
            IF FailsValidation THEN "Validation error" ELSE "Error during analysis"

\* The columns of the report, as the claim lists them
ReportColumns ==
    <<"CÓD", "FORNECEDOR PRINCIPAL", "DESCRIÇÃOPROMOB", "ESTQ10", "ESTQ20",
      "DEMANDAMRP", "ESTOQSEG", "PEDIDOS", "ESTOQUE DISPONÍVEL",
      "QUANTIDADE A SOLICITAR", "OBS">>

\* An input cell as it is carried to the result: unchanged, a blank one as
\* the empty string
Carried(cell) == IF cell.kind = "nan" THEN Txt(0) ELSE cell

C19_ExitStatusReflectsError ==
    IsSome(proc) =>
        /\ Val(proc).exit # 0 =>
              /\ Ran
              /\ IsSome(Res.error)
              /\ Val(proc).stderr = <<[text |-> "Error:", error |-> Val(Res.error)]>>
        /\ Val(proc).exit = 0 =>
              /\ Succeeded
              /\ Val(proc).stderr = <<>>
              /\ Val(proc).stdout # <<>>
              /\ Val(proc).stdout[1].count = Val(Res.count)

\* C20 as claimed: the default configuration's REQUIRED_COLUMNS is a list
\* with at least one column name, and the default analyzer exists, holding
\* that configuration.
C20_RequiredColumnsIsNonEmptyList ==
    /\ analyzer.config.REQUIRED_COLUMNS.type = "list"
    /\ Len(analyzer.config.REQUIRED_COLUMNS.items) > 0
    /\ analyzer.validator = "DataValidator"

C25_InputFailureWritesNothing ==
    [][(file' = file /\ ~ValidInput
          /\ IsSome(result') /\ IsSome(Val(result').error)) =>
          /\ out' = out
          /\ histDir' = histDir
          /\ hist' = hist
          /\ Val(Val(result').error).kind \notin {"write", "mkdir"}]_vars

\* After a successful invocation wrote a report with critical rows, the
\* input was replaced by one that is not valid and the next invocation
\* reported an error: the report and its history copy are still there
C25_Witness ==
    /\ Ran
    /\ IsSome(Res.error)
    /\ ~ValidInput
    /\ IsSome(out)
    /\ Len(Records(Val(out))) > 0
    /\ histDir
    /\ \E p \in DOMAIN hist : hist[p] = Val(out)

---------------------------------------------------------------------------
(* The window of src/mrp_gui.py: running an analysis, the table tab *)

\* The attributes an MRPGUI object has once __init__ has run: those assigned
\* by _initialize_state, _create_variables and the _build_* methods
GUIAttributes ==
    {"root", "state", "style", "selected_file", "sheet_name", "filter_column",
     "filter_value", "qtd_min", "qtd_max", "compare_before", "compare_after",
     "notebook", "tab_analysis", "tab_table", "tab_compare", "progress",
     "status_label", "log_text", "column_box", "tree", "stats_label",
     "compare_tree"}

\* Reading self.<name>: the AttributeError of a name the object lacks
GetAttr(name) ==
    IF name \in GUIAttributes THEN None ELSE Some([exc |-> "AttributeError", name |-> name])

\* Path(selected_file).parent / "itens_criticos.xlsx"
DefaultName ==
    [prefix |-> "itens_criticos", timestamp |-> None, suffix |-> ".xlsx"]

\* file_path.parent / f"itens_criticos_{now:%Y%m%d_%H%M%S}.xlsx"
output_name(now) ==
    [prefix |-> "itens_criticos_", timestamp |-> Some(strftime(now)), suffix |-> ".xlsx"]

\* pd.read_excel of a report: one record per data row
pd_read_excel(wb) == Records(wb)

\* AppState.update_pagination
update_pagination(state) ==
    IF state.df_table = <<>>
    THEN [state EXCEPT !.total_pages = 0, !.current_page = 0]
    ELSE LET total == (Len(state.df_table) - 1) \div state.page_size + 1
         IN  [state EXCEPT !.total_pages = total,
                           !.current_page = IF @ < total - 1 THEN @ ELSE total - 1]

\* MRPGUI._render_table: the tree is cleared and, for a table with rows,
\* given its column headings (each with _sort_column as its command) and
\* filled with the rows of page state.current_page. Both ways end in an
\* AttributeError, of self._update_stats for an empty table and of
\* self.page_label after the rows are inserted. The result is [gui, raised].
_render_table(g) ==
    LET df == g.state.df_table
        start_idx == g.state.current_page * g.state.page_size
        end_idx == start_idx + g.state.page_size
    IN  IF df = <<>>
        THEN [gui |-> [g EXCEPT !.tree = <<>>], raised |-> GetAttr("_update_stats")]
        ELSE [gui |-> [g EXCEPT !.columns = IF @ = <<>> THEN OUTPUT_COLUMNS ELSE @,
                                !.tree = SubSeq(df, start_idx + 1,
                                               IF end_idx < Len(df) THEN end_idx ELSE Len(df))],
              raised |-> GetAttr("page_label")]

\* MRPGUI._load_table(path): the file read is path, or itens_criticos.xlsx
\* next to the selected file when no path is given; the table is replaced,
\* the page reset and the table rendered. Every exception is caught and
\* shown in a message box.
LoadTable(g, path) ==
    LET file_path == IF IsSome(path) THEN Val(path) ELSE DefaultName
        g0 == [g EXCEPT !.file_path = Some(file_path)]
    IN  IF file_path \notin DOMAIN g0.dir
        THEN [g0 EXCEPT !.dialog = Some("Failed to load table")]
        ELSE LET g1 == [g0 EXCEPT !.state.df_table = pd_read_excel(g0.dir[file_path]),
                                  !.state.current_page = 0]
                 g2 == [g1 EXCEPT !.state = update_pagination(g1.state)]
                 rendered == _render_table(g2)
             IN  IF IsSome(rendered.raised)
                 THEN [rendered.gui EXCEPT !.dialog = Some("Failed to load table")]
                 ELSE rendered.gui

\* MRPAnalyzer.analyze(input, sheet_name, output_file) as the window calls it:
\* the outcomes [triple, fs] it can have at second now on the files fsys
mrp_analyzer_analyze(input, now, fsys) ==
    LET rd == read_excel(input)
        df == NormalizeColumns(rd.sheet)
        ex == IF IsSome(rd.raised) THEN rd.raised ELSE Validate(df)
    IN  IF IsSome(ex)
        THEN {[triple |-> Except(Val(ex)), fs |-> fsys]}
        ELSE {[triple |-> IF IsSome(saved.raised) THEN Except(Val(saved.raised))
                          ELSE Return(CriticalItems(df, 1)),
               fs |-> saved.fs] :
                saved \in {_save_results(CriticalItems(df, 1), fault, now, fsys) :
                             fault \in Faults}}

\* MRPGUI._handle_analysis_error: the message box, the progress bar stopped
_handle_analysis_error(g) ==
    [g EXCEPT !.dialog = Some("Analysis Error"), !.progress = "stopped"]

\* MRPGUI._handle_analysis_success: the output file loaded into the table,
\* then the success dialog
_handle_analysis_success(g, output_file) ==
    [LoadTable(g, Some(output_file)) EXCEPT !.dialog = Some("Success")]

\* A report of page_size + 1 rows left in the folder under the name
\* itens_criticos.xlsx by an earlier run with the default output path
LongReport ==
    _save_formatted_excel(
        [k \in 1..(GUIConfig.page_size + 1) |->
            [c \in Range(OUTPUT_COLUMNS) |->
                CASE c = "CÓD" -> Txt(k)
                  [] c = "QUANTIDADE A SOLICITAR" -> Num(k)
                  [] c = "ESTOQUE DISPONÍVEL" -> Num(0)
                  [] c \in Range(NUMERIC_COLUMNS) -> Num(0)
                  [] OTHER -> EmptyStr]])

\* The folders the window is started in: empty, or holding itens_criticos.xlsx
Folders == {<<>>, [n \in {DefaultName} |-> LongReport]}

InitGUI ==
    /\ file \in {None} \cup {Some(sh) : sh \in CachedSheets}
    /\ result = None
    /\ out = None
    /\ histDir = FALSE
    /\ hist = <<>>
    /\ clock = 0
    /\ cache = None
    /\ proc = None
    /\ analyzer = __init__(MRPConfig)
    /\ gui \in {MRPGUI(GUIConfig.page_size, d) : d \in Folders}

\* MRPGUI._run_analysis (the Run Analysis button): the input is validated,
\* the progress bar started and _execute_analysis scheduled with root.after;
\* a missing input file goes to _handle_analysis_error. One callback is
\* scheduled at a time.
_run_analysis ==
    /\ gui.after = None
    /\ gui' = [(IF file = None
                THEN _handle_analysis_error(gui)
                ELSE [gui EXCEPT !.progress = "running",
                                 !.after = Some("_execute_analysis")])
               EXCEPT !.event = "_run_analysis", !.raised = None]
    /\ UNCHANGED <<file, result, out, histDir, hist, clock, cache, proc, analyzer>>

\* MRPGUI._execute_analysis, run by the Tk event loop when the timer of
\* root.after fires, in the thread of mainloop: the analysis writes
\* itens_criticos_<timestamp>.xlsx next to the input; an error goes to
\* _handle_analysis_error, a success to _handle_analysis_success; the
\* progress bar is stopped in the finally clause
_execute_analysis ==
    /\ gui.after = Some("_execute_analysis")
    /\ \E output_file \in {output_name(clock)} :
       \E o \in mrp_analyzer_analyze(
                   file, clock,
                   [out |-> IF output_file \in DOMAIN gui.dir
                            THEN Some(gui.dir[output_file]) ELSE None,
                    histDir |-> histDir, hist |-> hist]) :
       \E g \in {[gui EXCEPT !.after = None,
                             !.thread = Some("MainThread"),
                             !.event = "_execute_analysis",
                             !.raised = None,
                             !.dir = IF IsSome(o.fs.out)
                                     THEN [n \in DOMAIN gui.dir \cup {output_file} |->
                                             IF n = output_file THEN Val(o.fs.out)
                                             ELSE gui.dir[n]]
                                     ELSE gui.dir]} :
         /\ result' = Some(o.triple)
         /\ histDir' = o.fs.histDir
         /\ hist' = o.fs.hist
         /\ gui' = [(IF IsSome(o.triple.error)
                     THEN _handle_analysis_error(g)
                     ELSE _handle_analysis_success(
                              [g EXCEPT !.output_file = Some(output_file)], output_file))
                    EXCEPT !.progress = "stopped"]
    /\ UNCHANGED <<file, out, clock, cache, proc, analyzer>>

\* The Reload button: command=self._load_table, called without a path
_load_table ==
    /\ gui' = [LoadTable(gui, None) EXCEPT !.event = "_load_table", !.raised = None]
    /\ UNCHANGED <<file, result, out, histDir, hist, clock, cache, proc, analyzer>>

\* The four handlers below stop at their first read of an attribute the
\* window lacks (the table and the page are in self.state): the
\* AttributeError goes to Tk, which reports it; nothing else changes

\* MRPGUI._apply_filter (the Apply Filter button): its first statement reads
\* self.df_table
_apply_filter ==
    /\ IsSome(GetAttr("df_table"))
    /\ gui' = [gui EXCEPT !.event = "_apply_filter", !.raised = GetAttr("df_table")]
    /\ UNCHANGED <<file, result, out, histDir, hist, clock, cache, proc, analyzer>>

\* MRPGUI._sort_column (a click on a column heading): reads self.df_table
_sort_column ==
    /\ gui.columns # <<>>
    /\ IsSome(GetAttr("df_table"))
    /\ gui' = [gui EXCEPT !.event = "_sort_column", !.raised = GetAttr("df_table")]
    /\ UNCHANGED <<file, result, out, histDir, hist, clock, cache, proc, analyzer>>

\* MRPGUI._prev_page (the Previous button): reads self.current_page
_prev_page ==
    /\ IsSome(GetAttr("current_page"))
    /\ gui' = [gui EXCEPT !.event = "_prev_page", !.raised = GetAttr("current_page")]
    /\ UNCHANGED <<file, result, out, histDir, hist, clock, cache, proc, analyzer>>

\* MRPGUI._next_page (the Next button): reads self.current_page
_next_page ==
    /\ IsSome(GetAttr("current_page"))
    /\ gui' = [gui EXCEPT !.event = "_next_page", !.raised = GetAttr("current_page")]
    /\ UNCHANGED <<file, result, out, histDir, hist, clock, cache, proc, analyzer>>

NextGUI ==
    \/ _run_analysis
    \/ _execute_analysis
    \/ _load_table
    \/ _apply_filter
    \/ _sort_column
    \/ _prev_page
    \/ _next_page

\* The window: analyses, reloads and the buttons of the table tab
SpecGUI == InitGUI /\ [][NextGUI]_vars

\* C23 as claimed: when the last handler run is the Reload button and an
\* analysis has succeeded before, the file Reload read is the output file of
\* the most recent successful analysis and the table holds its rows.
C23_ReloadReadsLastAnalysisFile ==
    (gui.event = "_load_table" /\ IsSome(gui.output_file)) =>
        /\ gui.file_path = gui.output_file
        /\ gui.state.df_table = pd_read_excel(gui.dir[Val(gui.output_file)])

\* C24 as claimed: the analysis ran in a thread other than the one of the
\* Tk event loop, and when it is over the progress bar is stopped.
C24_AnalysisOffTheEventLoop ==
    gui.event = "_execute_analysis" =>
        /\ gui.thread # Some("MainThread")
        /\ gui.progress = "stopped"

\* C27 as claimed: after every handler the page is within 0..total_pages-1
\* (0 for an empty table) with total_pages = ceil(rows / page_size); Next
\* moves the page forward by one when rows lie beyond it and leaves it
\* otherwise, Previous moves it back by one when it is above 0 and leaves
\* it otherwise; load, filter and sort leave it at 0; the rows shown are
\* those of the page.
C27_PagingFollowsButtons ==
    [][gui' # gui =>
         LET rows == Len(gui.state.df_table)
             size == gui.state.page_size
             page == gui.state.current_page
             page2 == gui'.state.current_page
             rows2 == Len(gui'.state.df_table)
         IN  /\ gui'.state.total_pages = (rows2 + size - 1) \div size
             /\ page2 >= 0
             /\ page2 <= Max0(gui'.state.total_pages - 1)
             /\ gui'.event = "_next_page"
                  => page2 = IF (page + 1) * size < rows THEN page + 1 ELSE page
             /\ gui'.event = "_prev_page"
                  => page2 = IF page > 0 THEN page - 1 ELSE page
             /\ gui'.event \in {"_apply_filter", "_sort_column"} => page2 = 0
             /\ (gui'.event = "_load_table" /\ gui'.state.df_table # gui.state.df_table)
                  => page2 = 0
             /\ rows2 > 0 =>
                  gui'.tree = SubSeq(gui'.state.df_table, page2 * size + 1,
                                     IF (page2 + 1) * size < rows2
                                     THEN (page2 + 1) * size ELSE rows2)]_vars

---------------------------------------------------------------------------
(* The comparison tab of src/mrp_gui.py *)

\* The item codes of the reports compared
CompareCodes == {1, 2}

\* One row of a report file: code, description, supplier and the quantity
\* to request; the other columns play no part in the comparison
ReportRow(code, q) ==
    [c \in Range(OUTPUT_COLUMNS) |->
        CASE c = "CÓD" -> Txt(code)
          [] c = "DESCRIÇÃOPROMOB" -> Txt(10 + code)
          [] c = "FORNECEDOR PRINCIPAL" -> Txt(20 + code)
          [] c = "QUANTIDADE A SOLICITAR" -> Num(q)
          [] c = "OBS" -> EmptyStr
          [] OTHER -> Num(0)]

\* The tables pd.read_excel gives for the report files chosen in the two
\* file dialogs: no row, or rows with different codes in either order
Reports ==
    {t \in SeqsUpTo({ReportRow(code, q) : code \in CompareCodes, q \in {0, MaxQty}},
                    MaxRows) :
        \A j, k \in 1..Len(t) : j # k => t[j]["CÓD"] # t[k]["CÓD"]}

\* code in df.set_index("CÓD").index
InIndex(df, code) == \E k \in 1..Len(df) : df[k]["CÓD"] = code

\* df.set_index("CÓD").at[code, col]
AtCode(df, code, col) == df[CHOOSE k \in 1..Len(df) : df[k]["CÓD"] = code][col]

\* sorted(S) for a set of codes
RECURSIVE sorted(_)
sorted(S) ==
    IF S = {} THEN <<>>
    ELSE LET least == CHOOSE x \in S : \A y \in S : x.val <= y.val
         IN  <<least>> \o sorted(S \ {least})

\* A comparison row whose difference is previous minus current
CompareRow_reversed(code, before, after) ==
    LET q_ant == IF InIndex(before, code)
                 THEN AtCode(before, code, "QUANTIDADE A SOLICITAR").val ELSE 0
        q_atu == IF InIndex(after, code)
                 THEN AtCode(after, code, "QUANTIDADE A SOLICITAR").val ELSE 0
    IN  [c \in {"CÓD", "DESCRIÇÃO", "FORNECEDOR", "ANTERIOR", "ATUAL",
                 "DIFERENÇA", "STATUS"} |->
            CASE c = "CÓD" -> code
              [] c = "DESCRIÇÃO" -> IF InIndex(after, code)
                                    THEN AtCode(after, code, "DESCRIÇÃOPROMOB")
                                    ELSE AtCode(before, code, "DESCRIÇÃOPROMOB")
              [] c = "FORNECEDOR" -> IF InIndex(after, code)
                                     THEN AtCode(after, code, "FORNECEDOR PRINCIPAL")
                                     ELSE AtCode(before, code, "FORNECEDOR PRINCIPAL")
              [] c = "ANTERIOR" -> Num(q_ant)
              [] c = "ATUAL" -> Num(q_atu)
              [] c = "DIFERENÇA" -> Num(q_ant - q_atu)
              [] c = "STATUS" -> IF ~InIndex(before, code) THEN "New"
                                 ELSE IF ~InIndex(after, code) THEN "Removed"
                                 ELSE IF q_ant # q_atu THEN "Changed"
                                 ELSE "Unchanged"]

\* MRPGUI._compare_files, the body of its loop: the row for one code
CompareRow(code, before, after) ==
    LET q_ant == IF InIndex(before, code)
                 THEN AtCode(before, code, "QUANTIDADE A SOLICITAR").val ELSE 0
        q_atu == IF InIndex(after, code)
                 THEN AtCode(after, code, "QUANTIDADE A SOLICITAR").val ELSE 0
    IN  [c \in {"CÓD", "DESCRIÇÃO", "FORNECEDOR", "ANTERIOR", "ATUAL",
                 "DIFERENÇA", "STATUS"} |->
            CASE c = "CÓD" -> code
              [] c = "DESCRIÇÃO" -> IF InIndex(after, code)
                                    THEN AtCode(after, code, "DESCRIÇÃOPROMOB")
                                    ELSE AtCode(before, code, "DESCRIÇÃOPROMOB")
              [] c = "FORNECEDOR" -> IF InIndex(after, code)
                                     THEN AtCode(after, code, "FORNECEDOR PRINCIPAL")
                                     ELSE AtCode(before, code, "FORNECEDOR PRINCIPAL")
              [] c = "ANTERIOR" -> Num(q_ant)
              [] c = "ATUAL" -> Num(q_atu)
              [] c = "DIFERENÇA" -> Num(q_atu - q_ant)
              [] c = "STATUS" -> IF ~InIndex(before, code) THEN "New"
                                 ELSE IF ~InIndex(after, code) THEN "Removed"
                                 ELSE IF q_ant # q_atu THEN "Changed"
                                 ELSE "Unchanged"]

\* MRPGUI._compare_files after its two early returns: one row per code of
\* sorted(set(before.index) | set(after.index))
CompareRows(before, after) ==
    LET all_codes == sorted({before[k]["CÓD"] : k \in 1..Len(before)}
                            \cup {after[k]["CÓD"] : k \in 1..Len(after)})
    IN  [n \in 1..Len(all_codes) |-> CompareRow(all_codes[n], before, after)]

\* MRPGUI._load_before (Select Previous Analysis): the chosen file is read
_load_before ==
    /\ \E t \in Reports :
         gui' = [gui EXCEPT !.compare_before = Some(t),
                            !.event = "_load_before", !.raised = None]
    /\ UNCHANGED <<file, result, out, histDir, hist, clock, cache, proc, analyzer>>

\* MRPGUI._load_after (Select Current Analysis): the chosen file is read
_load_after ==
    /\ \E t \in Reports :
         gui' = [gui EXCEPT !.compare_after = Some(t),
                            !.event = "_load_after", !.raised = None]
    /\ UNCHANGED <<file, result, out, histDir, hist, clock, cache, proc, analyzer>>

\* MRPGUI._compare_files (the Compare button): a warning and nothing else
\* when an analysis is not loaded or has no row; otherwise the comparison
\* tree is cleared and filled with the comparison rows
_compare_files ==
    /\ gui' = [(IF gui.compare_before = None \/ gui.compare_after = None
                THEN [gui EXCEPT !.dialog = Some("Missing File")]
                ELSE IF Val(gui.compare_before) = <<>> \/ Val(gui.compare_after) = <<>>
                THEN [gui EXCEPT !.dialog = Some("Empty Analysis")]
                ELSE [gui EXCEPT !.compare_tree =
                         CompareRows(Val(gui.compare_before), Val(gui.compare_after))])
               EXCEPT !.event = "_compare_files", !.raised = None]
    /\ UNCHANGED <<file, result, out, histDir, hist, clock, cache, proc, analyzer>>

InitCompare ==
    /\ file = None
    /\ Start

NextCompare == _load_before \/ _load_after \/ _compare_files

\* The comparison tab: files chosen and compared in any order
SpecCompare == InitCompare /\ [][NextCompare]_vars

\* Both analyses are loaded and have rows
BothLoaded ==
    /\ IsSome(gui.compare_before) /\ IsSome(gui.compare_after)
    /\ Val(gui.compare_before) # <<>> /\ Val(gui.compare_after) # <<>>

\* The quantity to request of `code` in table df, 0 when df lacks the code
QuantityIn(df, code) ==
    IF \E k \in 1..Len(df) : df[k]["CÓD"] = code
    THEN (CHOOSE r \in Range(df) : r["CÓD"] = code)["QUANTIDADE A SOLICITAR"].val
    ELSE 0

\* C26: a press of Compare with both analyses loaded and not empty leaves
\* in the comparison table one row per code of the union of the two, in
\* ascending code order, with ANTERIOR and ATUAL the quantities to request
\* of the previous and the current analysis (0 for a code the side lacks),
\* DIFERENÇA = ATUAL - ANTERIOR, and STATUS New for a code the previous
\* lacks, Removed for one only the previous has, Changed for one in both
\* with different quantities, Unchanged otherwise. A press with an
\* analysis not loaded or empty leaves the comparison table as it was.
C26_ComparisonTable ==
    [][(gui'.event = "_compare_files" /\ gui' # gui) =>
         IF BothLoaded
         THEN \A before \in {Val(gui.compare_before)} :
              \A after \in {Val(gui.compare_after)} :
              \A tree \in {gui'.compare_tree} :
                /\ {tree[n]["CÓD"] : n \in 1..Len(tree)}
                      = Codes(before) \cup Codes(after)
                /\ \A m, n \in 1..Len(tree) : m < n => tree[m]["CÓD"].val < tree[n]["CÓD"].val
                /\ \A n \in 1..Len(tree) :
                     \E row \in {tree[n]} :
                       /\ row["ANTERIOR"] = Num(QuantityIn(before, row["CÓD"]))
                       /\ row["ATUAL"] = Num(QuantityIn(after, row["CÓD"]))
                       /\ row["DIFERENÇA"] = Num(row["ATUAL"].val - row["ANTERIOR"].val)
                       /\ row["STATUS"] = "New" <=> row["CÓD"] \notin Codes(before)
                       /\ row["STATUS"] = "Removed"
                            <=> row["CÓD"] \in Codes(before) \ Codes(after)
                       /\ row["STATUS"] = "Changed"
                            <=> /\ row["CÓD"] \in Codes(before) \cap Codes(after)
                                /\ row["ANTERIOR"] # row["ATUAL"]
                       /\ row["STATUS"] = "Unchanged"
                            <=> /\ row["CÓD"] \in Codes(before) \cap Codes(after)
                                /\ row["ANTERIOR"] = row["ATUAL"]
         ELSE gui'.compare_tree = gui.compare_tree]_vars

\* After Compare: the current analysis lists code 2 before code 1, the
\* previous one has code 1 only; the table has code 1 as Changed with a
\* negative difference and then code 2 as New
C26_Witness ==
    /\ gui.event = "_compare_files"
    /\ BothLoaded
    /\ Len(Val(gui.compare_after)) = 2
    /\ Val(gui.compare_after)[1]["CÓD"] = Txt(2)
    /\ Len(gui.compare_tree) = 2
    /\ gui.compare_tree[1]["CÓD"] = Txt(1)
    /\ gui.compare_tree[1]["STATUS"] = "Changed"
    /\ gui.compare_tree[1]["DIFERENÇA"].val < 0
    /\ gui.compare_tree[2]["STATUS"] = "New"
    /\ gui.compare_tree[2]["ATUAL"].val > 0

====
